---- MODULE Spec2Model ----
(***************************************************************************)
(* Model of backend/main.py: the checkpoint loader (load_model), the      *)
(* request handler of POST /api/chat (chat) with the steps it calls       *)
(* (preprocess_image, run_inference, interpret_with_llm,                  *)
(* chat_without_image), and the health probe.                             *)
(*                                                                         *)
(* Python values are tagged records: None is [tag |-> "none"], a str is   *)
(* [tag |-> "str", s |-> ...] where it can also be None, a dict is        *)
(* [tag |-> "dict", d |-> f] with f a function from keys to values.  Text *)
(* is a TLA+ string, so startswith, slicing and strip are computed on the *)
(* characters.                                                             *)
(***************************************************************************)
EXTENDS Integers, Sequences, FiniteSets, TLC

VARIABLES
    file,           \* what torch.load finds at MODEL_PATH
    model,          \* the module-level global `model`
    load_result,    \* how the last load_model call ended
    checkpoint,     \* load_model local: the artifact torch.load returned
    source_key,     \* load_model local: index of the container key used, 0 if none
    extracted,      \* load_model: state_dict after extraction (line 164)
    state_dict,     \* load_model local: the mapping handed to load_state_dict
    load_completed, \* history: some load_model call ran through line 198
    health,         \* the last answer of the health probe
    inference_result, \* the result of the last direct run_inference call
    GROQ_API_KEY,   \* configuration read at import
    pc,             \* position of the chat handler
    message,        \* chat parameter `message`
    image,          \* chat parameter `image`
    image_bytes,    \* chat local
    image_tensor,   \* chat local
    conditions,     \* chat local
    llm_request,    \* arguments of client.chat.completions.create
    llm_reply,      \* what the generation service answered
    calls,          \* history: the steps this request has invoked, in order
    responses,      \* history: terminal outcomes emitted for this request
    prev_call       \* history: the generation call of an earlier request

loadVars == <<file, model, load_result, checkpoint, source_key, extracted, state_dict,
              load_completed>>
probeVars == <<health, inference_result>>
chatVars == <<GROQ_API_KEY, pc, message, image, image_bytes, image_tensor,
              conditions, llm_request, llm_reply, calls, responses, prev_call>>
vars == <<file, model, load_result, checkpoint, source_key, extracted, state_dict,
          load_completed, health, inference_result,
          GROQ_API_KEY, pc, message, image, image_bytes, image_tensor,
          conditions, llm_request, llm_reply, calls, responses, prev_call>>

(***************************************************************************)
(* Bounds                                                                  *)
(***************************************************************************)
MaxPrefixDepth == 2
MaxKeys == 2
NumTensorVals == 2

(***************************************************************************)
(* Python values                                                           *)
(***************************************************************************)
NoneVal == [tag |-> "none"]
Str(s) == [tag |-> "str", s |-> s]
Tensor(t) == [tag |-> "tensor", t |-> t]
IntVal(n) == [tag |-> "int", n |-> n]
Dict(f) == [tag |-> "dict", d |-> f]
\* an unpickled object that is not a dict (a whole nn.Module, a list, ...)
ObjectVal == [tag |-> "object"]

StrKey(s) == [isStr |-> TRUE, s |-> s]
\* a dict key that is not a str (an int, a tuple)
NonStrKey == [isStr |-> FALSE, s |-> "0"]

isinstance_dict(v) == v.tag = "dict"

\* str.startswith(prefix)
startswith(s, prefix) ==
    /\ Len(s) >= Len(prefix)
    /\ SubSeq(s, 1, Len(prefix)) = prefix

\* s[n:]
SliceFrom(s, n) == IF n >= Len(s) THEN "" ELSE SubSeq(s, n + 1, Len(s))

(***************************************************************************)
(* load_model                                                              *)
(***************************************************************************)
checkpoint_keys == <<"ema_state_dict", "model_state_dict", "state_dict">>
state_dict_prefixes == <<"module.", "model.">>

\* names of parameters of CheXpertCNN (two of the entries of its state_dict)
ParamNames == {"features.0.weight", "classifier.4.bias"}

\* CheXpertCNN(num_classes=14): parameters at their initial values (0),
\* training mode on
CheXpertCNN == [tag |-> "CheXpertCNN",
                params |-> [p \in ParamNames |-> 0],
                training |-> TRUE]

\* for key in checkpoint_keys: if key in checkpoint: ...; break
\* the index of the first container key present, 0 when there is none
RECURSIVE FirstPresentKey(_, _)
FirstPresentKey(ckpt, i) ==
    IF i > Len(checkpoint_keys) THEN 0
    ELSE IF StrKey(checkpoint_keys[i]) \in DOMAIN ckpt.d THEN i
    ELSE FirstPresentKey(ckpt, i + 1)

SourceKeyOf(ckpt) ==
    IF isinstance_dict(ckpt) THEN FirstPresentKey(ckpt, 1) ELSE 0

\* lines 151-164: state_dict after the container search and the
\* `if state_dict is None: state_dict = checkpoint` fallback
ExtractStateDict(ckpt) ==
    LET i == SourceKeyOf(ckpt)
        found == IF i > 0 THEN ckpt.d[StrKey(checkpoint_keys[i])] ELSE NoneVal
    IN  IF found = NoneVal THEN ckpt ELSE found

\* mutant: the slice starts one character early, k[len(prefix) - 1:]
StripPrefixOffByOne(sd, prefix) ==
    LET keys == DOMAIN sd.d
        newKey(k) == StrKey(SliceFrom(k.s, Len(prefix) - 1))
    IN  Dict([nk \in {newKey(k) : k \in keys} |->
                sd.d[CHOOSE k \in keys : newKey(k) = nk]])

\* {k[len(prefix):]: v for k, v in state_dict.items()}
StripPrefix(sd, prefix) ==
    LET keys == DOMAIN sd.d
        newKey(k) == StrKey(SliceFrom(k.s, Len(prefix)))
    IN  Dict([nk \in {newKey(k) : k \in keys} |->
                sd.d[CHOOSE k \in keys : newKey(k) = nk]])

\* counts[prefix] after the scan of the keys (all of them str)
PrefixCount(sd, prefix) ==
    Cardinality({k \in DOMAIN sd.d : startswith(k.s, prefix)})

\* mutant: strips as soon as some key carries the prefix, counts[prefix] > 0
RECURSIVE StripAnyPrefix(_, _)
StripAnyPrefix(sd, i) ==
    IF i > Len(state_dict_prefixes) THEN sd
    ELSE IF PrefixCount(sd, state_dict_prefixes[i]) > 0
         THEN StripPrefix(sd, state_dict_prefixes[i])
    ELSE StripAnyPrefix(sd, i + 1)

\* for prefix in state_dict_prefixes: if counts[prefix] == total_keys: ...; break
RECURSIVE StripFirstFullPrefix(_, _)
StripFirstFullPrefix(sd, i) ==
    IF i > Len(state_dict_prefixes) THEN sd
    ELSE IF PrefixCount(sd, state_dict_prefixes[i]) = Cardinality(DOMAIN sd.d)
         THEN StripPrefix(sd, state_dict_prefixes[i])
    ELSE StripFirstFullPrefix(sd, i + 1)

\* lines 170-187.  The scan stops at the first key that is not a str and
\* then nothing is stripped; otherwise total_keys is the number of keys, so
\* the order of the keys does not matter.
NormalizeKeys(sd) ==
    IF isinstance_dict(sd) /\ DOMAIN sd.d # {}
    THEN LET non_string_key == \E k \in DOMAIN sd.d : ~k.isStr
         IN  IF non_string_key THEN sd ELSE StripFirstFullPrefix(sd, 1)
    ELSE sd

\* model.load_state_dict(state_dict, strict=False) raises when the argument
\* is not a mapping or a value under a parameter's name is not a tensor
LoadStateDictRaises(sd) ==
    \/ ~isinstance_dict(sd)
    \/ \E p \in ParamNames :
          /\ StrKey(p) \in DOMAIN sd.d
          /\ sd.d[StrKey(p)].tag # "tensor"

\* strict=False: parameters named in the mapping take its values, the
\* others keep their initial values, keys naming no parameter are ignored
load_state_dict(m, sd) ==
    [m EXCEPT !.params =
        [p \in ParamNames |->
            IF StrKey(p) \in DOMAIN sd.d THEN sd.d[StrKey(p)].t ELSE m.params[p]]]

\* model.eval()
eval(m) == [m EXCEPT !.training = FALSE]

(***************************************************************************)
(* Inputs of load_model: the artifacts torch.load may return               *)
(***************************************************************************)
RECURSIVE PrefixStrings(_)
PrefixStrings(n) ==
    IF n = 0 THEN {""}
    ELSE PrefixStrings(n - 1) \cup
         {state_dict_prefixes[i] \o s :
             i \in 1..Len(state_dict_prefixes), s \in PrefixStrings(n - 1)}

KeyUniverse ==
    {StrKey(pre \o p) : pre \in PrefixStrings(MaxPrefixDepth), p \in ParamNames}
        \cup {NonStrKey}

TensorVals == {Tensor(t) : t \in 1..NumTensorVals}

\* the sets of at most n keys
RECURSIVE KeySets(_)
KeySets(n) ==
    IF n = 0 THEN {{}}
    ELSE KeySets(n - 1) \cup {ks \cup {k} : ks \in KeySets(n - 1), k \in KeyUniverse}

\* weight mappings with at most MaxKeys entries
WeightMappings == UNION {[ks -> TensorVals] : ks \in KeySets(MaxKeys)}

\* what a training script stores under its i-th container key: None (the
\* feature was off) or a one-entry weight mapping holding tensor i
ContainerValues(i) ==
    {NoneVal} \cup
    {Dict([k \in {StrKey(pre \o "features.0.weight")} |-> Tensor(i)]) :
        pre \in PrefixStrings(1)}

WrapperKeys == {StrKey(checkpoint_keys[i]) : i \in 1..Len(checkpoint_keys)}
                  \cup {StrKey("epoch")}

WrapperValues(k) ==
    IF k = StrKey("epoch") THEN {IntVal(1)}
    ELSE ContainerValues(CHOOSE i \in 1..Len(checkpoint_keys) :
                            k = StrKey(checkpoint_keys[i]))

\* training checkpoints: some container keys, optionally the epoch
Wrappers ==
    UNION {{f \in [ks -> UNION {WrapperValues(k) : k \in ks}] :
               \A k \in ks : f[k] \in WrapperValues(k)} :
              ks \in (SUBSET WrapperKeys) \ {{}, {StrKey("epoch")}}}

Artifacts ==
    {Dict(f) : f \in WeightMappings} \cup {Dict(f) : f \in Wrappers}
        \cup {ObjectVal}

\* MODEL_PATH does not exist / exists but cannot be deserialized
FileMissing == [tag |-> "missing"]
FileCorrupt == [tag |-> "corrupt"]
Files == Artifacts \cup {FileMissing, FileCorrupt}

\* lines 131-205, one call.  The global is assigned the fresh instance
\* (line 145) before torch.load runs, and no except clause resets it.
load_model ==
    IF model # NoneVal
    THEN \* lines 138-139: return model
         /\ load_result' = "returned"
         /\ UNCHANGED <<file, model, checkpoint, source_key, extracted, state_dict,
                        load_completed>>
    ELSE IF file = FileMissing
    THEN \* torch.load raises FileNotFoundError (lines 200-202)
         /\ model' = CheXpertCNN
         /\ load_result' = "ModelNotFound"
         /\ UNCHANGED <<file, checkpoint, source_key, extracted, state_dict,
                        load_completed>>
    ELSE IF file = FileCorrupt
    THEN \* torch.load raises something else (lines 203-205)
         /\ model' = CheXpertCNN
         /\ load_result' = "ModelLoadFailed"
         /\ UNCHANGED <<file, checkpoint, source_key, extracted, state_dict,
                        load_completed>>
    ELSE LET sd == NormalizeKeys(ExtractStateDict(file))
         IN  /\ checkpoint' = file
             /\ source_key' = SourceKeyOf(file)
             /\ extracted' = ExtractStateDict(file)
             /\ state_dict' = sd
             /\ IF LoadStateDictRaises(sd)
                THEN /\ model' = CheXpertCNN
                     /\ load_result' = "ModelLoadFailed"
                     /\ load_completed' = load_completed
                ELSE /\ model' = eval(load_state_dict(CheXpertCNN, sd))
                     /\ load_result' = "returned"
                     /\ load_completed' = TRUE
             /\ UNCHANGED file

\* lines 432-441: the startup hook, run once, calls load_model and re-raises
startup_event ==
    /\ load_result = "not_called"
    /\ load_model
    /\ UNCHANGED chatVars
    /\ UNCHANGED probeVars

(***************************************************************************)
(* Text                                                                    *)
(***************************************************************************)
NumProbLevels == 2
NumGenTexts == 1

\* str.strip(): drop whitespace at both ends
RECURSIVE lstrip(_)
lstrip(s) ==
    IF Len(s) > 0 /\ SubSeq(s, 1, 1) = " " THEN lstrip(SliceFrom(s, 1)) ELSE s

RECURSIVE rstrip(_)
rstrip(s) ==
    IF Len(s) > 0 /\ SubSeq(s, Len(s), Len(s)) = " "
    THEN rstrip(IF Len(s) = 1 THEN "" ELSE SubSeq(s, 1, Len(s) - 1))
    ELSE s

strip(s) == rstrip(lstrip(s))

\* the `message` form field: absent (the default ""), blank, and questions
\* with and without surrounding blanks
Messages ==
    {"", "   ", "What is pneumonia?", "  What is pneumonia? ", "Is it serious?"}

(***************************************************************************)
(* Conditions and probabilities                                            *)
(***************************************************************************)
CHEXPERT_CONDITIONS ==
    <<"No Finding", "Enlarged Cardiomediastinum", "Cardiomegaly",
      "Lung Opacity", "Lung Lesion", "Edema", "Consolidation", "Pneumonia",
      "Atelectasis", "Pneumothorax", "Pleural Effusion", "Pleural Other",
      "Fracture", "Support Devices">>

ConditionNames == {CHEXPERT_CONDITIONS[i] : i \in 1..Len(CHEXPERT_CONDITIONS)}

\* nn.Linear(512, num_classes) with num_classes=14: the forward pass yields
\* this many logits
num_classes == 14

\* probabilities in units of 1/10000
Probs == {1232 + 4 * i : i \in 0..(NumProbLevels - 1)}

\* the sigmoid outputs of one forward pass, by output index
ProbVectors ==
    {[i \in 1..num_classes |-> IF i = 1 THEN a ELSE b] : a \in Probs, b \in Probs}

\* f"{probability:.3f}": rounded to three decimals
Format3f(p) ==
    LET q == (p + 5) \div 10
        frac == q % 1000
    IN  ToString(q \div 1000) \o "."
          \o (IF frac < 10 THEN "00" ELSE IF frac < 100 THEN "0" ELSE "")
          \o ToString(frac)

(***************************************************************************)
(* Responses                                                               *)
(***************************************************************************)
HTTPException(status_code, detail) ==
    [tag |-> "HTTPException", status_code |-> status_code, detail |-> detail]

JSONResponse(response, has_image_analysis, conds) ==
    [tag |-> "JSONResponse", response |-> response,
     has_image_analysis |-> has_image_analysis, conditions |-> conds]

\* results of the functions chat calls: a value or a raised exception
Returned(v) == [raised |-> FALSE, exc |-> "", error |-> NoneVal, value |-> v]
Raised(exc, error) == [raised |-> TRUE, exc |-> exc, error |-> error, value |-> NoneVal]

(***************************************************************************)
(* preprocess_image, run_inference                                         *)
(***************************************************************************)
\* uploads: two images PIL decodes, bytes it cannot open, and an image whose
\* header opens but whose data fails in convert/transform
UploadBytes == {"", "PNG_A", "PNG_B", "JUNK", "TRUNC"}
ImageOpens(b) == b \in {"PNG_A", "PNG_B", "TRUNC"}
TransformWorks(b) == b \in {"PNG_A", "PNG_B"}

\* lines 208-257; the tensor is a function of the bytes alone
preprocess_image(b) ==
    IF b = "" THEN Raised("ValueError", "Image data is empty")
    ELSE IF ~ImageOpens(b)
    THEN Raised("ValueError", "Invalid image format: unable to decode image")
    ELSE IF ~TransformWorks(b)
    THEN Raised("ValueError", "Failed to preprocess image: image file is truncated")
    ELSE Returned([tag |-> "tensor", shape |-> <<1, 1, 224, 224>>, pixels |-> b])

numel(t) == t.shape[1] * t.shape[2] * t.shape[3] * t.shape[4]

\* what model(image_tensor) does: raises, or yields the sigmoid outputs
ForwardOutcomes ==
    {[raised |-> TRUE, probs |-> <<>>]}
        \cup {[raised |-> FALSE, probs |-> v] : v \in ProbVectors}

\* mutant: the last output is dropped, zip(CHEXPERT_CONDITIONS, probs_np[:-1])
ZipConditionsShort(probs) ==
    LET n == Len(probs) - 1
    IN  Dict([c \in {CHEXPERT_CONDITIONS[i] : i \in 1..n} |->
                probs[CHOOSE i \in 1..n : CHEXPERT_CONDITIONS[i] = c]])

\* {condition: float(prob) for condition, prob in zip(CHEXPERT_CONDITIONS, probs_np)}
ZipConditions(probs) ==
    LET n == IF Len(probs) < Len(CHEXPERT_CONDITIONS)
             THEN Len(probs) ELSE Len(CHEXPERT_CONDITIONS)
    IN  Dict([c \in {CHEXPERT_CONDITIONS[i] : i \in 1..n} |->
                probs[CHOOSE i \in 1..n : CHEXPERT_CONDITIONS[i] = c]])

\* lines 260-298
run_inference(m, t, forward) ==
    IF m = NoneVal THEN Raised("RuntimeError", "Model not initialized")
    ELSE IF t = NoneVal \/ numel(t) = 0
    THEN Raised("RuntimeError", "Invalid image tensor")
    ELSE IF forward.raised
    THEN Raised("RuntimeError", "Inference failed")
    ELSE Returned(ZipConditions(forward.probs))

(***************************************************************************)
(* interpret_with_llm, chat_without_image                                  *)
(***************************************************************************)
GenTexts == {"generated text " \o ToString(i) : i \in 1..NumGenTexts}

\* client.chat.completions.create(...): raises (timeout, service error, no
\* choices), or answers with message.content None, empty or a text
LLMReplies ==
    {[raised |-> TRUE, content |-> NoneVal]}
        \cup {[raised |-> FALSE, content |-> c] :
                 c \in {NoneVal, Str("")} \cup {Str(t) : t \in GenTexts}}

\* `content or "Unable to generate response."`
ContentOrDefault(content) ==
    IF content = NoneVal \/ content = Str("")
    THEN "Unable to generate response."
    ELSE content.s

\* "\n".join(f"- {condition}: {probability:.3f}" for ... in conditions.items())
RECURSIVE ConditionLines(_, _)
ConditionLines(conds, i) ==
    IF i > Len(CHEXPERT_CONDITIONS) THEN ""
    ELSE IF CHEXPERT_CONDITIONS[i] \notin DOMAIN conds.d
    THEN ConditionLines(conds, i + 1)
    ELSE (IF i > 1 THEN "\n" ELSE "")
           \o "- " \o CHEXPERT_CONDITIONS[i] \o ": "
           \o Format3f(conds.d[CHEXPERT_CONDITIONS[i]])
           \o ConditionLines(conds, i + 1)

FindingsSystemPrompt ==
    "You are a medical AI assistant that provides educational explanations of chest X-ray analysis results."

NoFindingsSystemPrompt ==
    "You are a helpful medical education assistant focusing on radiology and chest X-ray knowledge."

\* mutant: the prompt also carries the uploaded bytes
FindingsUserPromptWithImage(conds, user_message) ==
    "The AI model has analyzed a chest X-ray and produced the following probability estimates for different conditions:\n\n"
      \o ConditionLines(conds, 1)
      \o "\n\nImage: " \o image_bytes.s
      \o "\n\nUser question: "
      \o (IF user_message # "" THEN user_message ELSE "Please explain these results.")
      \o "\n\nProvide an educational interpretation of these results."

\* lines 350-361
FindingsUserPrompt(conds, user_message) ==
    "The AI model has analyzed a chest X-ray and produced the following probability estimates for different conditions:\n\n"
      \o ConditionLines(conds, 1)
      \o "\n\nUser question: "
      \o (IF user_message # "" THEN user_message ELSE "Please explain these results.")
      \o "\n\nProvide an educational interpretation of these results."

CompletionRequest(system_prompt, user_prompt, max_tokens) ==
    [model |-> "llama-3.3-70b-versatile", system |-> system_prompt,
     user |-> user_prompt, temperature |-> "0.3", max_tokens |-> max_tokens]

KeyConfigured(key) == key # NoneVal /\ key # Str("")

\* lines 301-380
interpret_with_llm(key, conds, user_message, reply) ==
    IF ~KeyConfigured(key)
    THEN [called |-> FALSE, request |-> NoneVal,
          result |-> Raised("HTTPException",
                            HTTPException(500, "LLM service not configured"))]
    ELSE [called |-> TRUE,
          request |-> CompletionRequest(FindingsSystemPrompt,
                                        FindingsUserPrompt(conds, user_message), 1000),
          result |-> IF reply.raised
                     THEN Raised("HTTPException",
                                 HTTPException(500, "Failed to generate interpretation. Please try again."))
                     ELSE Returned(ContentOrDefault(reply.content))]

\* lines 383-429
chat_without_image(key, msg, reply) ==
    IF ~KeyConfigured(key)
    THEN [called |-> FALSE, request |-> NoneVal,
          result |-> Raised("HTTPException",
                            HTTPException(500, "LLM service not configured"))]
    ELSE [called |-> TRUE,
          request |-> CompletionRequest(NoFindingsSystemPrompt, msg, 800),
          result |-> IF reply.raised
                     THEN Raised("HTTPException",
                                 HTTPException(500, "Failed to process chat request. Please try again."))
                     ELSE Returned(ContentOrDefault(reply.content))]

(***************************************************************************)
(* chat: POST /api/chat, lines 454-572, one action per step of the handler *)
(***************************************************************************)
ContentTypes == {NoneVal, Str(""), Str("text/plain"), Str("image/png")}

UploadFile(content_type) == [tag |-> "UploadFile", content_type |-> content_type]

Images == {NoneVal} \cup {UploadFile(ct) : ct \in ContentTypes}

\* `await image.read()`: raises, or yields the bytes of the upload
ReadOutcomes ==
    {[raised |-> TRUE, bytes |-> ""]}
        \cup {[raised |-> FALSE, bytes |-> b] : b \in UploadBytes}

Call(step, ok) == [step |-> step, ok |-> ok]

\* the generation call of the request that just ended, kept for comparison
\* with the next one
Remember ==
    IF llm_request # NoneVal
    THEN [request |-> llm_request, conditions |-> conditions,
          message |-> message, image_bytes |-> image_bytes]
    ELSE prev_call

\* mutant: only `not message` is tested, not `not message.strip()`
RouteRequestNoStrip(msg, img) ==
    IF img = NoneVal
    THEN IF msg = "" THEN "reject" ELSE "chat_without_image"
    ELSE "validate"

\* lines 471-472 and 486: where a request goes
RouteRequest(msg, img) ==
    IF img = NoneVal
    THEN IF msg = "" \/ strip(msg) = "" THEN "reject" ELSE "chat_without_image"
    ELSE "validate"

\* lines 469-476 and 486: a request arrives and is routed on `image is None`.
\* Requests are admitted once the startup hook has returned; when it raises,
\* the server does not start.
chat_begin(msg, img) ==
    /\ load_result = "returned"
    /\ pc \in {"idle", "done"}
    /\ message' = msg
    /\ image' = img
    /\ image_bytes' = NoneVal
    /\ image_tensor' = NoneVal
    /\ conditions' = NoneVal
    /\ llm_request' = NoneVal
    /\ llm_reply' = NoneVal
    /\ calls' = <<>>
    /\ prev_call' = Remember
    /\ IF RouteRequest(msg, img) = "reject"
       THEN /\ responses' =
                 <<HTTPException(400, "Please provide a message or upload an image")>>
            /\ pc' = "done"
       ELSE /\ responses' = <<>>
            /\ pc' = RouteRequest(msg, img)
    /\ UNCHANGED <<GROQ_API_KEY>>
    /\ UNCHANGED loadVars
    /\ UNCHANGED probeVars

\* lines 478-484
chat_text ==
    /\ pc = "chat_without_image"
    /\ \E reply \in LLMReplies :
          LET r == chat_without_image(GROQ_API_KEY, strip(message), reply)
          IN  /\ llm_request' = r.request
              /\ llm_reply' = IF r.called THEN reply ELSE NoneVal
              /\ calls' = IF r.called
                          THEN Append(calls, Call("generate", ~r.result.raised))
                          ELSE calls
              /\ responses' =
                    Append(responses,
                           IF r.result.raised THEN r.result.error
                           ELSE JSONResponse(r.result.value, FALSE, NoneVal))
    /\ pc' = "done"
    /\ UNCHANGED <<GROQ_API_KEY, message, image, image_bytes, image_tensor,
                   conditions, prev_call>>
    /\ UNCHANGED loadVars
    /\ UNCHANGED probeVars

\* mutant: a missing content type is let through
ValidateContentTypeLax(content_type) ==
    IF content_type = NoneVal \/ content_type = Str("")
    THEN Returned(NoneVal)
    ELSE IF ~startswith(content_type.s, "image/")
    THEN Raised("HTTPException",
                HTTPException(400, "Invalid file type. Please upload an image."))
    ELSE Returned(NoneVal)

\* lines 488-498
ValidateContentType(content_type) ==
    IF content_type = NoneVal \/ content_type = Str("")
    THEN Raised("HTTPException", HTTPException(400, "Unable to determine file type"))
    ELSE IF ~startswith(content_type.s, "image/")
    THEN Raised("HTTPException",
                HTTPException(400, "Invalid file type. Please upload an image."))
    ELSE Returned(NoneVal)

chat_validate ==
    /\ pc = "validate"
    /\ LET r == ValidateContentType(image.content_type)
       IN  /\ calls' = Append(calls, Call("validate", ~r.raised))
           /\ IF r.raised
              THEN /\ responses' = Append(responses, r.error)
                   /\ pc' = "done"
              ELSE /\ responses' = responses
                   /\ pc' = "read"
    /\ UNCHANGED <<GROQ_API_KEY, message, image, image_bytes, image_tensor,
                   conditions, llm_request, llm_reply, prev_call>>
    /\ UNCHANGED loadVars
    /\ UNCHANGED probeVars

\* lines 500-513: the try body raises HTTPException on an empty read, and
\* the `except Exception` around it catches whatever the body raised
ReadUpload(rd) ==
    LET body == IF rd.raised THEN Raised("OSError", "read failed")
                ELSE IF rd.bytes = "" \/ Len(rd.bytes) = 0
                THEN Raised("HTTPException",
                            HTTPException(400, "Uploaded image is empty"))
                ELSE Returned(rd.bytes)
    IN  IF body.raised
        THEN Raised("HTTPException", HTTPException(400, "Failed to read image file"))
        ELSE body

chat_read ==
    /\ pc = "read"
    /\ \E rd \in ReadOutcomes :
          LET r == ReadUpload(rd)
          IN  /\ image_bytes' = IF rd.raised THEN NoneVal ELSE Str(rd.bytes)
              /\ calls' = Append(calls, Call("read", ~r.raised))
              /\ IF r.raised
                 THEN /\ responses' = Append(responses, r.error)
                      /\ pc' = "done"
                 ELSE /\ responses' = responses
                      /\ pc' = "preprocess"
    /\ UNCHANGED <<GROQ_API_KEY, message, image, image_tensor, conditions,
                   llm_request, llm_reply, prev_call>>
    /\ UNCHANGED loadVars
    /\ UNCHANGED probeVars

\* mutant: a preprocessing failure is swallowed and inference is tried on
\* an all-zero tensor
chat_preprocess_fallback ==
    /\ pc = "preprocess"
    /\ LET r == preprocess_image(image_bytes.s)
       IN  /\ calls' = Append(calls, Call("preprocess", ~r.raised))
           /\ image_tensor' =
                 IF r.raised
                 THEN [tag |-> "tensor", shape |-> <<1, 1, 224, 224>>, pixels |-> "zeros"]
                 ELSE r.value
    /\ responses' = responses
    /\ pc' = "inference"
    /\ UNCHANGED <<GROQ_API_KEY, message, image, image_bytes, conditions,
                   llm_request, llm_reply, prev_call>>
    /\ UNCHANGED loadVars
    /\ UNCHANGED probeVars

\* lines 515-529
chat_preprocess ==
    /\ pc = "preprocess"
    /\ LET r == preprocess_image(image_bytes.s)
       IN  /\ calls' = Append(calls, Call("preprocess", ~r.raised))
           /\ IF r.raised
              THEN /\ responses' =
                        Append(responses,
                               IF r.exc = "ValueError"
                               THEN HTTPException(400, r.error)
                               ELSE HTTPException(500, "Failed to process image"))
                   /\ image_tensor' = image_tensor
                   /\ pc' = "done"
              ELSE /\ responses' = responses
                   /\ image_tensor' = r.value
                   /\ pc' = "inference"
    /\ UNCHANGED <<GROQ_API_KEY, message, image, image_bytes, conditions,
                   llm_request, llm_reply, prev_call>>
    /\ UNCHANGED loadVars
    /\ UNCHANGED probeVars

\* lines 531-545
chat_inference ==
    /\ pc = "inference"
    /\ \E forward \in ForwardOutcomes :
          LET r == run_inference(model, image_tensor, forward)
          IN  /\ calls' = Append(calls, Call("inference", ~r.raised))
              /\ IF r.raised
                 THEN /\ responses' =
                           Append(responses,
                                  IF r.exc = "RuntimeError"
                                  THEN HTTPException(500, "Model inference failed")
                                  ELSE HTTPException(500, "Failed to analyze image"))
                      /\ conditions' = conditions
                      /\ pc' = "done"
                 ELSE /\ responses' = responses
                      /\ conditions' = r.value
                      /\ pc' = "interpret"
    /\ UNCHANGED <<GROQ_API_KEY, message, image, image_bytes, image_tensor,
                   llm_request, llm_reply, prev_call>>
    /\ UNCHANGED loadVars
    /\ UNCHANGED probeVars

\* lines 547-563
chat_interpret ==
    /\ pc = "interpret"
    /\ \E reply \in LLMReplies :
          LET r == interpret_with_llm(GROQ_API_KEY, conditions,
                                      IF message # "" THEN strip(message) ELSE "",
                                      reply)
          IN  /\ llm_request' = r.request
              /\ llm_reply' = IF r.called THEN reply ELSE NoneVal
              /\ calls' = IF r.called
                          THEN Append(calls, Call("generate", ~r.result.raised))
                          ELSE calls
              /\ responses' =
                    Append(responses,
                           IF r.result.raised THEN r.result.error
                           ELSE JSONResponse(r.result.value, TRUE, conditions))
    /\ pc' = "done"
    /\ UNCHANGED <<GROQ_API_KEY, message, image, image_bytes, image_tensor,
                   conditions, prev_call>>
    /\ UNCHANGED loadVars
    /\ UNCHANGED probeVars

(***************************************************************************)
(* Specifications                                                          *)
(***************************************************************************)
\* the artifacts the service is started with in Spec
StartupFiles ==
    {FileMissing, FileCorrupt,
     Dict([k \in {StrKey("module.features.0.weight")} |-> Tensor(1)])}

ApiKeys == {NoneVal, Str("gsk_test")}

InitLoad ==
    /\ model = NoneVal
    /\ load_result = "not_called"
    /\ checkpoint = NoneVal
    /\ source_key = 0
    /\ extracted = NoneVal
    /\ state_dict = NoneVal
    /\ load_completed = FALSE

InitProbe ==
    /\ health = NoneVal
    /\ inference_result = NoneVal

InitChat ==
    /\ pc = "idle"
    /\ message = ""
    /\ image = NoneVal
    /\ image_bytes = NoneVal
    /\ image_tensor = NoneVal
    /\ conditions = NoneVal
    /\ llm_request = NoneVal
    /\ llm_reply = NoneVal
    /\ calls = <<>>
    /\ responses = <<>>
    /\ prev_call = NoneVal

\* the service: startup hook and requests
Init ==
    /\ file \in StartupFiles
    /\ GROQ_API_KEY \in ApiKeys
    /\ InitLoad
    /\ InitProbe
    /\ InitChat

Next ==
    \/ startup_event
    \/ \E msg \in Messages, img \in Images : chat_begin(msg, img)
    \/ chat_text
    \/ chat_validate
    \/ chat_read
    \/ chat_preprocess
    \/ chat_inference
    \/ chat_interpret

Spec == Init /\ [][Next]_vars

\* the loader alone, over every artifact
InitLoader ==
    /\ file \in Files
    /\ GROQ_API_KEY = NoneVal
    /\ InitLoad
    /\ InitProbe
    /\ InitChat

NextLoader == startup_event

SpecLoad == InitLoader /\ [][NextLoader]_vars

\* INFERENCE_DEVICE, line 45
INFERENCE_DEVICE == "cpu"

\* lines 444-451
health_check ==
    /\ health' = [status |-> "healthy",
                  model_loaded |-> (model # NoneVal),
                  device |-> INFERENCE_DEVICE]
    /\ inference_result' = inference_result
    /\ UNCHANGED loadVars
    /\ UNCHANGED chatVars

\* a call of load_model at any time, first or repeated
load_model_call ==
    /\ load_model
    /\ UNCHANGED probeVars
    /\ UNCHANGED chatVars

\* a call of run_inference on a preprocessed image, whatever load_model did
\* before
run_inference_call ==
    /\ \E b \in {u \in UploadBytes : TransformWorks(u)}, forward \in ForwardOutcomes :
          inference_result' = run_inference(model, preprocess_image(b).value, forward)
    /\ health' = health
    /\ UNCHANGED loadVars
    /\ UNCHANGED chatVars

\* the loader, the health probe and the inference engine called in any order
NextLifecycle ==
    \/ load_model_call
    \/ health_check
    \/ run_inference_call

SpecLifecycle == InitLoader /\ [][NextLifecycle]_vars

(***************************************************************************)
(* Properties                                                              *)
(***************************************************************************)
Invoked(step) == \E i \in 1..Len(calls) : calls[i].step = step
Finished == pc = "done" /\ Len(responses) > 0
Outcome == responses[Len(responses)]
Succeeded == Finished /\ Outcome.tag = "JSONResponse"

\* C1: a request that ends in a success payload has has_image_analysis true
\* and conditions keyed by exactly the 14 condition names if and only if it
\* carried an image part, and then preprocessing and inference ran; without
\* an image part the text is non-blank, the request went to
\* chat_without_image, has_image_analysis is false, conditions is null and
\* neither preprocessing nor inference was invoked.
C1_SuccessRouting ==
    Succeeded =>
        /\ (image # NoneVal) <=>
              /\ Outcome.has_image_analysis = TRUE
              /\ isinstance_dict(Outcome.conditions)
              /\ DOMAIN Outcome.conditions.d = ConditionNames
              /\ Cardinality(DOMAIN Outcome.conditions.d) = 14
        /\ (image # NoneVal) =>
              /\ Invoked("preprocess")
              /\ Invoked("inference")
        /\ (image = NoneVal) =>
              /\ strip(message) # ""
              /\ llm_request # NoneVal
              /\ llm_request.system = NoFindingsSystemPrompt
              /\ Outcome.has_image_analysis = FALSE
              /\ Outcome.conditions = NoneVal
              /\ ~Invoked("preprocess")
              /\ ~Invoked("inference")

\* an image request has succeeded after a text-only request reached the
\* generation call
C1_Witness ==
    /\ Succeeded
    /\ image # NoneVal
    /\ Outcome.has_image_analysis = TRUE
    /\ prev_call # NoneVal
    /\ prev_call.image_bytes = NoneVal

\* C2: a request without image part and with an empty or whitespace-only
\* message ends in the 400 "missing input" error, and the generation call,
\* preprocessing and inference are never invoked in it.
C2_MissingInput ==
    (pc # "idle" /\ image = NoneVal /\ strip(message) = "") =>
        /\ pc = "done"
        /\ responses = <<HTTPException(400, "Please provide a message or upload an image")>>
        /\ calls = <<>>
        /\ llm_request = NoneVal
        /\ image_tensor = NoneVal
        /\ conditions = NoneVal

\* a whitespace-only message without image has been rejected
C2_Witness ==
    /\ pc = "done"
    /\ image = NoneVal
    /\ message = "   "
    /\ Len(responses) = 1
    /\ responses[1].status_code = 400

\* the declared content type denotes an image kind
IsImageKind(content_type) ==
    /\ content_type.tag = "str"
    /\ Len(content_type.s) >= 6
    /\ SubSeq(content_type.s, 1, 6) = "image/"

\* C3: when an image part is present and its content type is missing or
\* does not start with "image/", the request is rejected with status 400
\* before the bytes are read, with or without text: no read, preprocessing,
\* inference or generation call happens and the text-only path is not taken.
C3_InvalidFileType ==
    (pc # "idle" /\ image # NoneVal /\ ~IsImageKind(image.content_type)) =>
        /\ pc \in {"validate", "done"}
        /\ \A i \in 1..Len(calls) : calls[i].step = "validate"
        /\ image_bytes = NoneVal
        /\ image_tensor = NoneVal
        /\ conditions = NoneVal
        /\ llm_request = NoneVal
        /\ pc = "done" =>
              /\ Len(responses) = 1
              /\ responses[1].tag = "HTTPException"
              /\ responses[1].status_code = 400
              /\ responses[1].detail \in
                    {"Unable to determine file type",
                     "Invalid file type. Please upload an image."}

\* a text/plain upload accompanied by a question has been rejected
C3_Witness ==
    /\ pc = "done"
    /\ image # NoneVal
    /\ image.content_type = Str("text/plain")
    /\ strip(message) # ""
    /\ Len(responses) = 1
    /\ responses[1].status_code = 400

\* C4: when an image part with an image content type is read and yields
\* zero bytes, the request is rejected with the reason "Uploaded image is
\* empty", which differs from the reason given when the read itself fails,
\* and preprocessing, inference and generation are not invoked.
C4_EmptyUpload ==
    (pc = "done" /\ image_bytes = Str("")) =>
        /\ responses = <<HTTPException(400, "Uploaded image is empty")>>
        /\ ~Invoked("preprocess")
        /\ ~Invoked("inference")
        /\ ~Invoked("generate")

\* C5: the response text of a success payload is exactly the text the
\* generation service returned for that request; a call that fails or
\* yields no text ends in a failure, never in a success payload with text
\* the service did not generate.
C5_NoFabricatedText ==
    /\ Succeeded =>
          /\ llm_reply # NoneVal
          /\ ~llm_reply.raised
          /\ llm_reply.content.tag = "str"
          /\ llm_reply.content.s # ""
          /\ Outcome.response = llm_reply.content.s
    /\ (Finished /\ llm_reply # NoneVal
          /\ (llm_reply.raised \/ llm_reply.content \in {NoneVal, Str("")})) =>
          /\ Outcome.tag = "HTTPException"
          /\ Outcome.status_code = 500

StepRank(step) ==
    CASE step = "validate" -> 1
      [] step = "read" -> 2
      [] step = "preprocess" -> 3
      [] step = "inference" -> 4
      [] step = "generate" -> 5

\* C6: within a request, content-type validation, byte read, preprocessing,
\* inference and the generation call each happen at most once and in that
\* order; after a failed step no further step is invoked and none is
\* re-run, and the request ends in exactly one terminal outcome.
C6_NoRetry ==
    /\ \A i \in 1..Len(calls) : \A j \in 1..Len(calls) :
          i < j => StepRank(calls[i].step) < StepRank(calls[j].step)
    /\ \A i \in 1..Len(calls) : ~calls[i].ok => i = Len(calls)
    /\ (Len(calls) > 0 /\ ~calls[Len(calls)].ok) =>
          /\ pc = "done"
          /\ Len(responses) = 1
          /\ responses[1].tag = "HTTPException"
    /\ Len(responses) <= 1
    /\ (pc = "done") <=> (Len(responses) = 1)

\* a request has ended with the failure of its third step, after two steps
\* that succeeded
C6_Witness ==
    /\ pc = "done"
    /\ Len(calls) = 3
    /\ calls[3] = Call("preprocess", FALSE)
    /\ Len(responses) = 1

\* C7: what is sent to the generation service is a function of the
\* condition probabilities and the caller's text only: two requests with
\* the same text and the same conditions (none, for text-only requests)
\* send the same instructions and sampling parameters, whatever the image
\* bytes were.
C7_GuardIsolation ==
    (/\ llm_request # NoneVal
     /\ prev_call # NoneVal
     /\ prev_call.message = message
     /\ prev_call.conditions = conditions) =>
        prev_call.request = llm_request

\* two image requests with different bytes, the same scores and the same
\* text have reached the generation call
C7_Witness ==
    /\ llm_request # NoneVal
    /\ prev_call # NoneVal
    /\ prev_call.message = message
    /\ conditions # NoneVal
    /\ prev_call.conditions = conditions
    /\ prev_call.image_bytes # image_bytes
    /\ prev_call.request = llm_request

\* torch.load returned an artifact in the load_model call that ran
ArtifactRead == load_result # "not_called" /\ checkpoint # NoneVal

\* every key of the mapping is a str that starts with the prefix
AllKeysCarry(sd, prefix) ==
    /\ isinstance_dict(sd)
    /\ \A k \in DOMAIN sd.d :
          /\ k.isStr
          /\ Len(k.s) >= Len(prefix)
          /\ SubSeq(k.s, 1, Len(prefix)) = prefix

WithoutPrefix(k, prefix) ==
    StrKey(IF Len(k.s) = Len(prefix) THEN ""
           ELSE SubSeq(k.s, Len(prefix) + 1, Len(k.s)))

\* the mapping with the prefix removed from every key, values kept
Unprefixed(sd, prefix) ==
    Dict([nk \in {WithoutPrefix(k, prefix) : k \in DOMAIN sd.d} |->
            sd.d[CHOOSE k \in DOMAIN sd.d : WithoutPrefix(k, prefix) = nk]])

\* the first prefix, in the fixed order, that a non-empty mapping carries on
\* every key; 0 when there is none
StrippablePrefix(sd) ==
    IF isinstance_dict(sd) /\ DOMAIN sd.d # {}
          /\ \E i \in 1..Len(state_dict_prefixes) :
                AllKeysCarry(sd, state_dict_prefixes[i])
    THEN CHOOSE i \in 1..Len(state_dict_prefixes) :
            /\ AllKeysCarry(sd, state_dict_prefixes[i])
            /\ \A j \in 1..(i - 1) : ~AllKeysCarry(sd, state_dict_prefixes[j])
    ELSE 0

\* C8: load_model strips a prefix exactly when the extracted mapping is
\* non-empty, all its keys are strings and all of them start with that
\* prefix, and then it strips the first such prefix of ("module.",
\* "model.") from every key; in every other case the mapping it binds is
\* the extracted mapping, with no key renamed, added or dropped.
C8_KeyNormalization ==
    ArtifactRead =>
        IF StrippablePrefix(extracted) # 0
        THEN LET prefix == state_dict_prefixes[StrippablePrefix(extracted)]
             IN  /\ isinstance_dict(state_dict)
                 /\ DOMAIN state_dict.d =
                       {WithoutPrefix(k, prefix) : k \in DOMAIN extracted.d}
                 /\ \A k \in DOMAIN extracted.d :
                       state_dict.d[WithoutPrefix(k, prefix)] = extracted.d[k]
        ELSE state_dict = extracted

\* a mapping of two keys that both carry a prefix has been stripped
C8_Witness ==
    /\ ArtifactRead
    /\ load_result = "returned"
    /\ StrippablePrefix(extracted) # 0
    /\ Cardinality(DOMAIN extracted.d) = 2
    /\ state_dict # extracted

\* the parameters a fresh process binds when the weight mapping it extracts
\* is the given one (lines 170-192)
ParamsLoadedFrom(weights) ==
    LET sd == NormalizeKeys(weights)
    IN  IF LoadStateDictRaises(sd) THEN [p \in {} |-> 0]
        ELSE eval(load_state_dict(CheXpertCNN, sd)).params

\* C9 as claimed: for every weight mapping whose keys all carry a
\* recognized prefix, loading it binds the same parameter names and values
\* as loading the mapping with that prefix removed from every key.
C9_IdempotenceAsClaimed ==
    (ArtifactRead /\ load_result = "returned"
        /\ StrippablePrefix(extracted) # 0) =>
        model.params =
            ParamsLoadedFrom(Unprefixed(extracted,
                state_dict_prefixes[StrippablePrefix(extracted)]))

\* C9, amended: for every non-empty weight mapping whose keys all carry a
\* recognized prefix and whose keys, once that prefix is removed, do not all
\* carry a recognized prefix again, loading it binds the same parameter
\* names and values as loading the mapping with that prefix removed from
\* every key.
C9_Idempotence ==
    (ArtifactRead /\ load_result = "returned"
        /\ StrippablePrefix(extracted) # 0
        /\ StrippablePrefix(Unprefixed(extracted,
              state_dict_prefixes[StrippablePrefix(extracted)])) = 0) =>
        model.params =
            ParamsLoadedFrom(Unprefixed(extracted,
                state_dict_prefixes[StrippablePrefix(extracted)]))

\* a mapping with one prefix layer on every key has been loaded and bound a
\* parameter to a value of the mapping
C9_Witness ==
    /\ ArtifactRead
    /\ load_result = "returned"
    /\ StrippablePrefix(extracted) # 0
    /\ StrippablePrefix(Unprefixed(extracted,
          state_dict_prefixes[StrippablePrefix(extracted)])) = 0
    /\ \E p \in ParamNames : model.params[p] # 0

\* the container keys the artifact holds, by their index in checkpoint_keys
PresentContainerKeys(ckpt) ==
    {i \in 1..Len(checkpoint_keys) : StrKey(checkpoint_keys[i]) \in DOMAIN ckpt.d}

\* C10: when the artifact is a mapping, the weight mapping load_model uses
\* is the value stored under the first container key present, in the order
\* ("ema_state_dict", "model_state_dict", "state_dict"); the whole artifact
\* is used only when no container key is present or the artifact is not a
\* mapping.
C10_ContainerPriority ==
    ArtifactRead =>
        IF isinstance_dict(checkpoint) /\ PresentContainerKeys(checkpoint) # {}
        THEN LET first == CHOOSE i \in PresentContainerKeys(checkpoint) :
                             \A j \in PresentContainerKeys(checkpoint) : i <= j
             IN  extracted = checkpoint.d[StrKey(checkpoint_keys[first])]
        ELSE extracted = checkpoint

\* C11: the process-wide model is bound (the health probe reports
\* model_loaded, load_model returns it, run_inference does not raise "Model
\* not initialized") only if some load_model call completed; after a
\* load_model call that failed the model is still unbound, so a later
\* run_inference raises "Model not initialized" and a later load_model does
\* not return an instance without loaded weights.
C11_BoundOnlyAfterLoad ==
    /\ model # NoneVal => load_completed
    /\ load_result \in {"ModelNotFound", "ModelLoadFailed"} => model = NoneVal
    /\ load_result = "returned" =>
          /\ load_completed
          /\ model # NoneVal
          /\ ~model.training
    /\ (health # NoneVal /\ health.model_loaded) => load_completed
    /\ (inference_result # NoneVal /\ ~load_completed) =>
          inference_result = Raised("RuntimeError", "Model not initialized")

====
